---- MODULE Spec2Model ----
(***************************************************************************)
(* Project lifecycle and ingestion pipeline of develevetor-server.         *)
(*                                                                         *)
(* The store (tables projects and documents), the temp_repos directory and *)
(* every request handler / ingestion run are modelled at the granularity   *)
(* of the awaited calls of the source: one action per awaited call, the    *)
(* synchronous continuation that follows it included.                      *)
(*                                                                         *)
(* A store call resolves to {data, error} and does not reject.  It is      *)
(* taken to have had its effect, except where the source inspects the      *)
(* returned error (bulk insert of a batch, insert of the project row,      *)
(* delete of the project row) or the returned data (project and user       *)
(* lookups).                                                               *)
(***************************************************************************)
EXTENDS Integers, Sequences, FiniteSets, TLC

\* ------------------------------------------------------------------ bounds
\* Number of requests admitted by the concurrent specification.
MaxReq == 2
\* Number of requests admitted by the sequential specification.
MaxSeqReq == 2
\* Number of project ids the store hands out.
MaxProjects == 2
\* Number of deltas the generation provider emits in one stream at most.
MaxDeltas == 3
\* Number of rows the similarity search returns at most in the model.
MaxHits == 2
\* Number of paths in a list handed to generateFileTree.
MaxPaths == 3
\* Number of characters of a file read by readFiles.
MaxText == 4
\* Number of chat requests a user sends within one usage window.
MaxChats == 17

\* ------------------------------------------------------- program constants
\* indexer.service.ts:77
BATCH_SIZE == 10
\* chat.controller.ts:159
MATCH_COUNT == 5
\* rateLimit.middleware.ts:7
CHATS_PER_DAY == 15

\* ------------------------------------------------------------------ inputs
Users == {"u1", "u2"}
Kinds == {"create", "sync", "delete", "read"}

MaxOf(a, b) == IF a >= b THEN a ELSE b
MinOf(a, b) == IF a <= b THEN a ELSE b

\* Slots of requests in flight: two requests (each with the run it starts)
\* overlap at a time.  The run started by the request in slot r is runs[r];
\* a slot is taken again once its handler and its run have ended.
RIDS == {1, 2}
\* Project ids: project 1 may pre-exist, each create takes the next id.
PIDS == 1 .. MaxProjects

\* A repository snapshot as read by readFiles: one entry per document, the
\* entry being the number of chunks the splitter yields for that document.
\* Three batches (10, 10 and 5 documents) and one batch (2 documents).
BigSnapshot == [d \in 1 .. 25 |-> IF d = 13 THEN 0 ELSE IF d = 5 THEN 2 ELSE 1]
SmallSnapshot == <<1, 2>>
\* The repositories the source host serves in the sequential and in the
\* concurrent specification.
SeqSnapshots == { <<0>>, BigSnapshot }
ConcSnapshots == { SmallSnapshot }

\* A repository of three files, the second one split into two chunks, and
\* the paths of its files in the order glob yields them.
ChatSnapshot == <<1, 2, 1>>
ChatPaths == << <<"package.json">>, <<"src", "index.ts">>, <<"src", "c.ts">> >>

\* The repositories the chat specification has indexed for project 1: the one
\* above, and two that hold exactly package.json and src/index.ts.
ChatRepos ==
    { [paths |-> ChatPaths, chunks |-> ChatSnapshot],
      [paths |-> << <<"src", "index.ts">>, <<"package.json">> >>, chunks |-> <<3, 1>>],
      [paths |-> << <<"package.json">>, <<"src", "index.ts">> >>, chunks |-> <<2, 1>>] }

\* ------------------------------------------------------------------- state
VARIABLES
    projects,   \* table projects: pid -> [status, user_id]; status "NONE" = no row
    documents,  \* table documents: set of rows
    tempDir,    \* temp_repos/<projectId>: pid -> directory
    reqs,       \* request handlers: rid -> handler state
    runs,       \* ingestion runs (processProject calls): rid -> run state
    nReq,       \* number of requests received
    nextPid,    \* next project id the store hands out
    nextGen,    \* number of the next ingestion run
    origin,     \* source host: the snapshots a clone may obtain
    chat,       \* the chatWithProject handler: its locals and its response
    messages,   \* table chat_messages, in order of creation
    usage,      \* table user_usage: chat_count of the requesting user
    repoPaths,  \* source host: the path of the d-th file of the repository
    call,       \* a call of a function of the source: name, argument, result
    gate        \* the chat route of one user: its requests from checkRateLimit on

vars == <<projects, documents, tempDir, reqs, runs, nReq, nextPid, nextGen, origin,
          chat, messages, usage, repoPaths, call, gate>>

\* The part of the state the project handlers and the ingestion runs work on.
lifeVars == <<projects, documents, tempDir, reqs, runs, nReq, nextPid, nextGen, origin,
              repoPaths>>

NoProject == [status |-> "NONE", user_id |-> "-"]
NoDir == [exists |-> FALSE, by |-> 0, snap |-> <<>>]
NoReq == [kind |-> "-", user |-> "-", pid |-> 0, pc |-> "new", seen |-> "-",
          wiped |-> FALSE, statusSet |-> FALSE, resp |-> <<>>]
NoRun == [pc |-> "idle", pid |-> 0, gen |-> 0, docs |-> <<>>, i |-> 0,
          inserted |-> {}, insErr |-> {}, fail |-> "none", failBatch |-> 0,
          wrote |-> "none"]

\* A chat request on its way through the route, and the route before any
\* request: arrived and reached count the requests that entered checkRateLimit
\* and the requests that entered chatWithProject.
NoGate == [pc |-> "idle", resp |-> 0]
GateIdle == [at |-> [r \in RIDS |-> NoGate], arrived |-> 0, reached |-> 0]

\* No function has been called.
NoCall == [fn |-> "none", arg |-> <<>>, out |-> <<>>]

\* The chat handler before a request: no local is set, nothing was sent.
\* A text is a sequence of characters, a path a sequence of segments.
NoChat == [pc |-> "new", pid |-> 0, sel |-> <<>>, message |-> <<>>, base |-> 0,
           fileStructure |-> <<>>, targetPaths |-> <<>>,
           explicitDocs |-> <<>>, vectorDocs |-> <<>>, uniqueDocs |-> <<>>,
           sources |-> <<>>, retrErr |-> "none", fail |-> "none",
           emitted |-> <<>>, fullAnswer |-> <<>>,
           hdrSet |-> FALSE, xsources |-> <<>>, headersSent |-> FALSE,
           status |-> 0, body |-> <<>>, errBody |-> FALSE, ended |-> FALSE]

\* Rows of the documents table that belong to project p.
DocsOf(p) == {row \in documents : row.project_id = p}

\* The rows indexDocuments builds for the batch starting at offset i:
\* one row per chunk of each of documents.slice(i, i + BATCH_SIZE).
\* gen is the run that built the row (the store's row identity).
BatchRows(p, k, docs, i) ==
    UNION {{[project_id |-> p, gen |-> k, doc |-> d, chunk |-> c] : c \in 1 .. docs[d]} :
              d \in (i + 1) .. MinOf(i + BATCH_SIZE, Len(docs))}

\* Batch number of the batch starting at offset i (i / BATCH_SIZE + 1).
BatchNo(i) == (i \div BATCH_SIZE) + 1

\* -------------------------------------------------------------------- Init
\* The store outlives the server: it is empty, or holds project 1 (owner u1,
\* READY) with the rows of one completed earlier run (generation 0).  No
\* handler and no run is in flight and temp_repos is empty.
InitStores ==
    { [projects |-> [p \in PIDS |-> NoProject], documents |-> {}, nextPid |-> 1],
      [projects |-> [p \in PIDS |-> IF p = 1
                                      THEN [status |-> "READY", user_id |-> "u1"]
                                      ELSE NoProject],
       documents |-> BatchRows(1, 0, <<1, 2>>, 0),
       nextPid |-> 2] }

InitState ==
    /\ \E s \in InitStores :
          /\ projects = s.projects
          /\ documents = s.documents
          /\ nextPid = s.nextPid
    /\ tempDir = [p \in PIDS |-> NoDir]
    /\ reqs = [r \in RIDS |-> NoReq]
    /\ runs = [r \in RIDS |-> NoRun]
    /\ nReq = 0
    /\ nextGen = 1

\* No chat request is in flight; the transcript is empty.
ChatIdle ==
    /\ chat = NoChat
    /\ messages = <<>>
    /\ usage = 0
    /\ repoPaths = ChatPaths
    /\ call = NoCall
    /\ gate = GateIdle

Init == InitState /\ origin = ConcSnapshots /\ ChatIdle

InitSeq == InitState /\ origin = SeqSnapshots /\ ChatIdle

\* ----------------------------------------------------------------- helpers
\* The handler's response object: res.json / res.status(..).json appends.
Respond(r, code) == [reqs EXCEPT ![r].resp = Append(@, code), ![r].pc = "done"]

\* indexerService.processProject(...) is called without await: the call runs
\* synchronously up to cloneRepo's first await, i.e. through fs.existsSync.
StartRun(r, p) ==
    [runs EXCEPT ![r] = [NoRun EXCEPT !.pid = p, !.gen = nextGen,
                                      !.pc = IF tempDir[p].exists THEN "cloneClean"
                                                                  ELSE "clone"]]

\* A handler or a run is still executing.
ReqActive(r) == reqs[r].pc \notin {"new", "done"}
RunActive(k) == runs[k].pc \notin {"idle", "done", "failed"}
SlotFree(r) == ~ReqActive(r) /\ ~RunActive(r)
Idle == \A r \in RIDS : SlotFree(r)

\* processProject has returned: its locals are gone, its outcome stays.
EndRun(k, pc, wrote) ==
    [runs EXCEPT ![k] = [NoRun EXCEPT !.pc = pc, !.pid = runs[k].pid,
                                      !.gen = runs[k].gen, !.wrote = wrote]]

\* -------------------------------------------------------- request arrival
\* A request passes requireAuth (user u) and enters its handler.  create
\* takes no project id; the others carry the :id route parameter.
Arrive(r, kind, u, p) ==
    /\ SlotFree(r)
    /\ \A q \in RIDS : q < r => ~SlotFree(q)
    /\ nReq' = nReq + 1
    /\ runs' = [runs EXCEPT ![r] = NoRun]
    /\ reqs' = [reqs EXCEPT ![r] =
                  [NoReq EXCEPT !.kind = kind, !.user = u,
                                !.pid = IF kind = "create" THEN 0 ELSE p,
                                !.pc = CASE kind = "create" -> "insert"
                                         [] kind = "sync"   -> "verify"
                                         [] kind = "delete" -> "wipe"
                                         [] kind = "read"   -> "verify"]]
    /\ UNCHANGED <<projects, documents, tempDir, nextPid, nextGen, origin, chat, messages, usage, repoPaths, call, gate>>

\* ------------------------------------------------------------ createProject
\* A. insert the project row with status INDEXING; a store error is thrown
\*    and the catch block answers 500.
CreateInsert(r) ==
    /\ reqs[r].kind = "create" /\ reqs[r].pc = "insert"
    /\ \/ /\ nextPid \in PIDS
          /\ projects' = [projects EXCEPT ![nextPid] =
                            [status |-> "INDEXING", user_id |-> reqs[r].user]]
          /\ nextPid' = nextPid + 1
          /\ reqs' = [reqs EXCEPT ![r].pid = nextPid, ![r].pc = "respond"]
       \/ /\ reqs' = Respond(r, 500)
          /\ UNCHANGED <<projects, nextPid>>
    /\ UNCHANGED <<documents, tempDir, runs, nReq, nextGen, origin, chat, messages, usage, repoPaths, call, gate>>

\* Variant: the response is deferred until after the run has been started.
CreateRespondLate(r) ==
    /\ reqs[r].kind = "create" /\ reqs[r].pc = "respond"
    /\ reqs' = [reqs EXCEPT ![r].pc = "token"]
    /\ UNCHANGED <<projects, documents, tempDir, runs, nReq, nextPid, nextGen, origin, chat, messages, usage, repoPaths, call, gate>>

\* B. res.json({ project }), then the token query is issued.
CreateRespond(r) ==
    /\ reqs[r].kind = "create" /\ reqs[r].pc = "respond"
    /\ reqs' = [reqs EXCEPT ![r].resp = Append(@, 200), ![r].pc = "token"]
    /\ UNCHANGED <<projects, documents, tempDir, runs, nReq, nextPid, nextGen, origin, chat, messages, usage, repoPaths, call, gate>>

\* Variant: a failed token query is thrown, and the catch block answers 500.
CreateTokenThrows(r) ==
    /\ reqs[r].kind = "create" /\ reqs[r].pc = "token"
    /\ \/ /\ runs' = StartRun(r, reqs[r].pid)
          /\ nextGen' = nextGen + 1
          /\ reqs' = [reqs EXCEPT ![r].pc = "done"]
       \/ /\ reqs' = Respond(r, 500)
          /\ UNCHANGED <<runs, nextGen>>
    /\ UNCHANGED <<projects, documents, tempDir, nReq, nextPid, origin, chat, messages, usage, repoPaths, call, gate>>

\* C/D. the users row is read; with a token the run is started (not awaited),
\*      without one nothing more happens.
CreateToken(r) ==
    /\ reqs[r].kind = "create" /\ reqs[r].pc = "token"
    /\ \/ /\ runs' = StartRun(r, reqs[r].pid)
          /\ nextGen' = nextGen + 1
          /\ reqs' = [reqs EXCEPT ![r].pc = "done"]
       \/ /\ reqs' = [reqs EXCEPT ![r].pc = "done"]
          /\ UNCHANGED <<runs, nextGen>>
    /\ UNCHANGED <<projects, documents, tempDir, nReq, nextPid, origin, chat, messages, usage, repoPaths, call, gate>>

\* -------------------------------------------------------------- syncProject
\* Variant: a project that is not READY is refused.
SyncVerifyReadyOnly(r) ==
    /\ reqs[r].kind = "sync" /\ reqs[r].pc = "verify"
    /\ \/ /\ projects[reqs[r].pid].status = "READY"
          /\ projects[reqs[r].pid].user_id = reqs[r].user
          /\ reqs' = [reqs EXCEPT ![r].pc = "wipe",
                                  ![r].seen = projects[reqs[r].pid].status]
       \/ /\ ~(/\ projects[reqs[r].pid].status = "READY"
               /\ projects[reqs[r].pid].user_id = reqs[r].user)
          /\ reqs' = Respond(r, 404)
    /\ UNCHANGED <<projects, documents, tempDir, runs, nReq, nextPid, nextGen, origin, chat, messages, usage, repoPaths, call, gate>>

\* Variant: the ownership check is left out of the select.
SyncVerifyAnyUser(r) ==
    /\ reqs[r].kind = "sync" /\ reqs[r].pc = "verify"
    /\ \/ /\ projects[reqs[r].pid].status # "NONE"
          /\ reqs' = [reqs EXCEPT ![r].pc = "wipe",
                                  ![r].seen = projects[reqs[r].pid].status]
       \/ /\ projects[reqs[r].pid].status = "NONE"
          /\ reqs' = Respond(r, 404)
    /\ UNCHANGED <<projects, documents, tempDir, runs, nReq, nextPid, nextGen, origin, chat, messages, usage, repoPaths, call, gate>>

\* 1. select("*") the project by id and user_id: the row (its status
\*    included) is returned, or no row and the answer is 404.
SyncVerify(r) ==
    /\ reqs[r].kind = "sync" /\ reqs[r].pc = "verify"
    /\ \/ /\ projects[reqs[r].pid].status # "NONE"
          /\ projects[reqs[r].pid].user_id = reqs[r].user
          /\ reqs' = [reqs EXCEPT ![r].pc = "wipe",
                                  ![r].seen = projects[reqs[r].pid].status]
       \/ /\ ~(/\ projects[reqs[r].pid].status # "NONE"
               /\ projects[reqs[r].pid].user_id = reqs[r].user)
          /\ reqs' = Respond(r, 404)
    /\ UNCHANGED <<projects, documents, tempDir, runs, nReq, nextPid, nextGen, origin, chat, messages, usage, repoPaths, call, gate>>

\* Variant: the wipe is left out.
SyncWipeKeep(r) ==
    /\ reqs[r].kind = "sync" /\ reqs[r].pc = "wipe"
    /\ documents' = documents
    /\ reqs' = [reqs EXCEPT ![r].pc = "setStatus",
                            ![r].wiped = (\A row \in documents' :
                                             row.project_id # reqs[r].pid)]
    /\ UNCHANGED <<projects, tempDir, runs, nReq, nextPid, nextGen, origin, chat, messages, usage, repoPaths, call, gate>>

\* Variant: the delete carries no project filter.
SyncWipeAll(r) ==
    /\ reqs[r].kind = "sync" /\ reqs[r].pc = "wipe"
    /\ documents' = {}
    /\ reqs' = [reqs EXCEPT ![r].pc = "setStatus", ![r].wiped = TRUE]
    /\ UNCHANGED <<projects, tempDir, runs, nReq, nextPid, nextGen, origin, chat, messages, usage, repoPaths, call, gate>>

\* 2. delete every documents row of the project.
SyncWipe(r) ==
    /\ reqs[r].kind = "sync" /\ reqs[r].pc = "wipe"
    /\ documents' = documents \ DocsOf(reqs[r].pid)
    /\ reqs' = [reqs EXCEPT ![r].pc = "setStatus",
                            ![r].wiped = (\A row \in documents' :
                                             row.project_id # reqs[r].pid)]
    /\ UNCHANGED <<projects, tempDir, runs, nReq, nextPid, nextGen, origin, chat, messages, usage, repoPaths, call, gate>>

\* 3. update status to INDEXING where id matches (no row: no effect).
SyncSetStatus(r) ==
    /\ reqs[r].kind = "sync" /\ reqs[r].pc = "setStatus"
    /\ projects' = [projects EXCEPT ![reqs[r].pid].status =
                      IF @ = "NONE" THEN @ ELSE "INDEXING"]
    /\ reqs' = [reqs EXCEPT ![r].pc = "respond", ![r].statusSet = TRUE]
    /\ UNCHANGED <<documents, tempDir, runs, nReq, nextPid, nextGen, origin, chat, messages, usage, repoPaths, call, gate>>

\* 4. res.json({ success: true }), then the token query is issued.
SyncRespond(r) ==
    /\ reqs[r].kind = "sync" /\ reqs[r].pc = "respond"
    /\ reqs' = [reqs EXCEPT ![r].resp = Append(@, 200), ![r].pc = "token"]
    /\ UNCHANGED <<projects, documents, tempDir, runs, nReq, nextPid, nextGen, origin, chat, messages, usage, repoPaths, call, gate>>

\* Variant: a missing token is recorded on the project as ERROR.
SyncTokenMarksError(r) ==
    /\ reqs[r].kind = "sync" /\ reqs[r].pc = "token"
    /\ \/ /\ runs' = StartRun(r, reqs[r].pid)
          /\ nextGen' = nextGen + 1
          /\ reqs' = [reqs EXCEPT ![r].pc = "done"]
          /\ UNCHANGED projects
       \/ /\ reqs' = [reqs EXCEPT ![r].pc = "done"]
          /\ projects' = [projects EXCEPT ![reqs[r].pid].status =
                            IF @ = "NONE" THEN @ ELSE "ERROR"]
          /\ UNCHANGED <<runs, nextGen>>
    /\ UNCHANGED <<documents, tempDir, nReq, nextPid, origin, chat, messages, usage, repoPaths, call, gate>>

\* 5. the users row is read; with a token the run is started (not awaited).
SyncToken(r) ==
    /\ reqs[r].kind = "sync" /\ reqs[r].pc = "token"
    /\ \/ /\ runs' = StartRun(r, reqs[r].pid)
          /\ nextGen' = nextGen + 1
          /\ reqs' = [reqs EXCEPT ![r].pc = "done"]
       \/ /\ reqs' = [reqs EXCEPT ![r].pc = "done"]
          /\ UNCHANGED <<runs, nextGen>>
    /\ UNCHANGED <<projects, documents, tempDir, nReq, nextPid, origin, chat, messages, usage, repoPaths, call, gate>>

\* ------------------------------------------------------------ deleteProject
\* 1. delete every documents row with the given project id.
DeleteWipe(r) ==
    /\ reqs[r].kind = "delete" /\ reqs[r].pc = "wipe"
    /\ documents' = documents \ DocsOf(reqs[r].pid)
    /\ reqs' = [reqs EXCEPT ![r].pc = "row"]
    /\ UNCHANGED <<projects, tempDir, runs, nReq, nextPid, nextGen, origin, chat, messages, usage, repoPaths, call, gate>>

\* 2. delete the project row where id and user_id match; a store error is
\*    thrown and answered with 500, otherwise the answer is success.
DeleteRow(r) ==
    /\ reqs[r].kind = "delete" /\ reqs[r].pc = "row"
    /\ \/ /\ projects' = [projects EXCEPT ![reqs[r].pid] =
                            IF @.status # "NONE" /\ @.user_id = reqs[r].user
                            THEN NoProject ELSE @]
          /\ reqs' = Respond(r, 200)
       \/ /\ reqs' = Respond(r, 500)
          /\ UNCHANGED projects
    /\ UNCHANGED <<documents, tempDir, runs, nReq, nextPid, nextGen, origin, chat, messages, usage, repoPaths, call, gate>>

\* ----------------------------------------------------------- getFileContent
\* 2. select the project by id and user_id; none: 404.
ReadVerify(r) ==
    /\ reqs[r].kind = "read" /\ reqs[r].pc = "verify"
    /\ \/ /\ projects[reqs[r].pid].status # "NONE"
          /\ projects[reqs[r].pid].user_id = reqs[r].user
          /\ reqs' = [reqs EXCEPT ![r].pc = "github"]
       \/ /\ ~(/\ projects[reqs[r].pid].status # "NONE"
               /\ projects[reqs[r].pid].user_id = reqs[r].user)
          /\ reqs' = Respond(r, 404)
    /\ UNCHANGED <<projects, documents, tempDir, runs, nReq, nextPid, nextGen, origin, chat, messages, usage, repoPaths, call, gate>>

\* 3. the live file is fetched from the source host; on failure fall back.
ReadGithub(r) ==
    /\ reqs[r].kind = "read" /\ reqs[r].pc = "github"
    /\ \/ reqs' = Respond(r, 200)
       \/ reqs' = [reqs EXCEPT ![r].pc = "fallback"]
    /\ UNCHANGED <<projects, documents, tempDir, runs, nReq, nextPid, nextGen, origin, chat, messages, usage, repoPaths, call, gate>>

\* 4. one documents row of the project with the requested path, else 404.
ReadFallback(r) ==
    /\ reqs[r].kind = "read" /\ reqs[r].pc = "fallback"
    /\ \/ /\ DocsOf(reqs[r].pid) # {}
          /\ reqs' = Respond(r, 200)
       \/ reqs' = Respond(r, 404)
    /\ UNCHANGED <<projects, documents, tempDir, runs, nReq, nextPid, nextGen, origin, chat, messages, usage, repoPaths, call, gate>>

\* ------------------------------------------ IndexerService.processProject
\* cloneRepo: the directory existed at fs.existsSync, so it is removed.
RunCloneClean(k) ==
    /\ runs[k].pc = "cloneClean"
    /\ tempDir' = [tempDir EXCEPT ![runs[k].pid] = NoDir]
    /\ runs' = [runs EXCEPT ![k].pc = "clone"]
    /\ UNCHANGED <<projects, documents, reqs, nReq, nextPid, nextGen, origin, chat, messages, usage, repoPaths, call, gate>>

\* Variant: a failed clone is not thrown; the run goes on to read the files.
RunCloneGoesOn(k) ==
    /\ runs[k].pc = "clone"
    /\ \/ /\ ~tempDir[runs[k].pid].exists
          /\ \E s \in origin :
                tempDir' = [tempDir EXCEPT ![runs[k].pid] =
                              [exists |-> TRUE, by |-> runs[k].gen, snap |-> s]]
          /\ runs' = [runs EXCEPT ![k].pc = "read"]
       \/ /\ runs' = [runs EXCEPT ![k].pc = "read", ![k].fail = "clone"]
          /\ UNCHANGED tempDir
    /\ UNCHANGED <<projects, documents, reqs, nReq, nextPid, nextGen, origin, chat, messages, usage, repoPaths, call, gate>>

\* cloneRepo: git clone --depth 1 into temp_repos/<projectId>.  It fails when
\* the source is unavailable, and when the target directory is not empty
\* (another run of the project cloned after this run's existence check).
\* A failed clone leaves no directory of its own.
RunClone(k) ==
    /\ runs[k].pc = "clone"
    /\ \/ /\ ~tempDir[runs[k].pid].exists
          /\ \E s \in origin :
                tempDir' = [tempDir EXCEPT ![runs[k].pid] =
                              [exists |-> TRUE, by |-> runs[k].gen, snap |-> s]]
          /\ runs' = [runs EXCEPT ![k].pc = "read"]
       \/ /\ runs' = [runs EXCEPT ![k].pc = "catch", ![k].fail = "clone"]
          /\ UNCHANGED tempDir
    /\ UNCHANGED <<projects, documents, reqs, nReq, nextPid, nextGen, origin, chat, messages, usage, repoPaths, call, gate>>

\* The for-loop header of indexDocuments: the next batch, or the loop's end.
LoopPc(docs, i) == IF i < Len(docs) THEN "batch" ELSE "cleanup"

\* readFiles: glob and read whatever is in temp_repos/<projectId> now (a
\* missing directory yields no file); a read error is thrown.
RunRead(k) ==
    /\ runs[k].pc = "read"
    /\ \/ LET docs == IF tempDir[runs[k].pid].exists
                      THEN tempDir[runs[k].pid].snap ELSE <<>>
          IN  runs' = [runs EXCEPT ![k].docs = docs, ![k].i = 0,
                                   ![k].pc = LoopPc(docs, 0)]
       \/ runs' = [runs EXCEPT ![k].pc = "catch", ![k].fail = "read"]
    /\ UNCHANGED <<projects, documents, tempDir, reqs, nReq, nextPid, nextGen, origin, chat, messages, usage, repoPaths, call, gate>>

\* Variant: an embedding failure drops the batch and the loop continues.
RunBatchTolerant(k) ==
    /\ runs[k].pc = "batch"
    /\ LET rows == BatchRows(runs[k].pid, runs[k].gen, runs[k].docs, runs[k].i)
           b == BatchNo(runs[k].i)
           next == LoopPc(runs[k].docs, runs[k].i + BATCH_SIZE)
       IN  \/ /\ runs' = [runs EXCEPT ![k].fail = "embed", ![k].failBatch = b,
                                       ![k].i = @ + BATCH_SIZE, ![k].pc = next]
              /\ UNCHANGED documents
           \/ /\ rows = {}
              /\ runs' = [runs EXCEPT ![k].i = @ + BATCH_SIZE, ![k].pc = next]
              /\ UNCHANGED documents
           \/ /\ rows # {}
              /\ documents' = documents \cup rows
              /\ runs' = [runs EXCEPT ![k].inserted = @ \cup {b},
                                      ![k].i = @ + BATCH_SIZE, ![k].pc = next]
           \/ /\ rows # {}
              /\ UNCHANGED documents
              /\ runs' = [runs EXCEPT ![k].insErr = @ \cup {b},
                                      ![k].i = @ + BATCH_SIZE, ![k].pc = next]
    /\ UNCHANGED <<projects, tempDir, reqs, nReq, nextPid, nextGen, origin, chat, messages, usage, repoPaths, call, gate>>

\* Variant: an insert error is thrown (if (error) throw error).
RunBatchInsertThrows(k) ==
    /\ runs[k].pc = "batch"
    /\ LET rows == BatchRows(runs[k].pid, runs[k].gen, runs[k].docs, runs[k].i)
           b == BatchNo(runs[k].i)
           next == LoopPc(runs[k].docs, runs[k].i + BATCH_SIZE)
       IN  \/ /\ runs' = [runs EXCEPT ![k].pc = "catch", ![k].fail = "embed",
                                       ![k].failBatch = b]
              /\ UNCHANGED documents
           \/ /\ rows = {}
              /\ runs' = [runs EXCEPT ![k].i = @ + BATCH_SIZE, ![k].pc = next]
              /\ UNCHANGED documents
           \/ /\ rows # {}
              /\ documents' = documents \cup rows
              /\ runs' = [runs EXCEPT ![k].inserted = @ \cup {b},
                                      ![k].i = @ + BATCH_SIZE, ![k].pc = next]
           \/ /\ rows # {}
              /\ UNCHANGED documents
              /\ runs' = [runs EXCEPT ![k].insErr = @ \cup {b},
                                      ![k].fail = "insert", ![k].pc = "catch"]
    /\ UNCHANGED <<projects, tempDir, reqs, nReq, nextPid, nextGen, origin, chat, messages, usage, repoPaths, call, gate>>

\* Variant: the loop steps by BATCH_SIZE - 1, so that consecutive slices of
\* documents share a document.
RunBatchOverlap(k) ==
    /\ runs[k].pc = "batch"
    /\ LET rows == BatchRows(runs[k].pid, runs[k].gen, runs[k].docs, runs[k].i)
           b == BatchNo(runs[k].i)
           next == LoopPc(runs[k].docs, runs[k].i + BATCH_SIZE - 1)
       IN  \/ /\ runs' = [runs EXCEPT ![k].pc = "catch", ![k].fail = "embed",
                                       ![k].failBatch = b]
              /\ UNCHANGED documents
           \/ /\ rows = {}
              /\ runs' = [runs EXCEPT ![k].i = @ + BATCH_SIZE - 1, ![k].pc = next]
              /\ UNCHANGED documents
           \/ /\ rows # {}
              /\ documents' = documents \cup rows
              /\ runs' = [runs EXCEPT ![k].inserted = @ \cup {b},
                                      ![k].i = @ + BATCH_SIZE - 1, ![k].pc = next]
           \/ /\ rows # {}
              /\ UNCHANGED documents
              /\ runs' = [runs EXCEPT ![k].insErr = @ \cup {b},
                                      ![k].i = @ + BATCH_SIZE - 1, ![k].pc = next]
    /\ UNCHANGED <<projects, tempDir, reqs, nReq, nextPid, nextGen, origin, chat, messages, usage, repoPaths, call, gate>>

\* One iteration of indexDocuments' loop.  A and B: split each document of
\* the batch and embed each chunk, accumulating insertData; a splitter or
\* embedding error is not caught inside indexDocuments.  C: bulk insert of a
\* non-empty insertData; a returned error is logged only.  Either way the
\* loop goes on to the next batch.
RunBatch(k) ==
    /\ runs[k].pc = "batch"
    /\ LET rows == BatchRows(runs[k].pid, runs[k].gen, runs[k].docs, runs[k].i)
           b == BatchNo(runs[k].i)
           next == LoopPc(runs[k].docs, runs[k].i + BATCH_SIZE)
       IN  \/ /\ runs' = [runs EXCEPT ![k].pc = "catch", ![k].fail = "embed",
                                       ![k].failBatch = b]
              /\ UNCHANGED documents
           \/ /\ rows = {}
              /\ runs' = [runs EXCEPT ![k].i = @ + BATCH_SIZE, ![k].pc = next]
              /\ UNCHANGED documents
           \/ /\ rows # {}
              /\ documents' = documents \cup rows
              /\ runs' = [runs EXCEPT ![k].inserted = @ \cup {b},
                                      ![k].i = @ + BATCH_SIZE, ![k].pc = next]
           \/ /\ rows # {}
              /\ UNCHANGED documents
              /\ runs' = [runs EXCEPT ![k].insErr = @ \cup {b},
                                      ![k].i = @ + BATCH_SIZE, ![k].pc = next]
    /\ UNCHANGED <<projects, tempDir, reqs, nReq, nextPid, nextGen, origin, chat, messages, usage, repoPaths, call, gate>>

\* Variant: the snapshot is not removed before READY is written.
RunCleanupKeeps(k) ==
    /\ runs[k].pc = "cleanup"
    /\ \/ /\ UNCHANGED tempDir
          /\ runs' = [runs EXCEPT ![k].pc = "ready"]
       \/ /\ UNCHANGED tempDir
          /\ runs' = [runs EXCEPT ![k].pc = "catch", ![k].fail = "cleanup"]
    /\ UNCHANGED <<projects, documents, reqs, nReq, nextPid, nextGen, origin, chat, messages, usage, repoPaths, call, gate>>

\* Step 4: fs.remove(repoPath) removes whatever is at the path; an error is
\* thrown and leaves the directory.
RunCleanup(k) ==
    /\ runs[k].pc = "cleanup"
    /\ \/ /\ tempDir' = [tempDir EXCEPT ![runs[k].pid] = NoDir]
          /\ runs' = [runs EXCEPT ![k].pc = "ready"]
       \/ /\ UNCHANGED tempDir
          /\ runs' = [runs EXCEPT ![k].pc = "catch", ![k].fail = "cleanup"]
    /\ UNCHANGED <<projects, documents, reqs, nReq, nextPid, nextGen, origin, chat, messages, usage, repoPaths, call, gate>>

\* Step 5: update status to READY where id matches (no row: no effect).
RunReady(k) ==
    /\ runs[k].pc = "ready"
    /\ projects' = [projects EXCEPT ![runs[k].pid].status =
                      IF @ = "NONE" THEN @ ELSE "READY"]
    /\ runs' = EndRun(k, "done", "READY")
    /\ UNCHANGED <<documents, tempDir, reqs, nReq, nextPid, nextGen, origin, chat, messages, usage, repoPaths, call, gate>>

\* Variant: the catch block rolls the run's rows back.
RunCatchRollback(k) ==
    /\ runs[k].pc = "catch"
    /\ projects' = [projects EXCEPT ![runs[k].pid].status =
                      IF @ = "NONE" THEN @ ELSE "ERROR"]
    /\ documents' = {row \in documents : row.gen # runs[k].gen}
    /\ runs' = EndRun(k, "failed", "ERROR")
    /\ UNCHANGED <<tempDir, reqs, nReq, nextPid, nextGen, origin, chat, messages, usage, repoPaths, call, gate>>

\* catch block: update status to ERROR where id matches; nothing else.
RunCatch(k) ==
    /\ runs[k].pc = "catch"
    /\ projects' = [projects EXCEPT ![runs[k].pid].status =
                      IF @ = "NONE" THEN @ ELSE "ERROR"]
    /\ runs' = EndRun(k, "failed", "ERROR")
    /\ UNCHANGED <<documents, tempDir, reqs, nReq, nextPid, nextGen, origin, chat, messages, usage, repoPaths, call, gate>>

\* ------------------------------------------------------- chat: the inputs
\* metadata.path of a documents row: the path of the file it was built from.
PathOf(row) == repoPaths[row.doc]

\* corePatterns.some((core) => p.includes(core)) for the paths above:
\* "package.json" and "src/index" are core patterns.
MatchesCore(p) == p \in { <<"package.json">>, <<"src", "index.ts">> }

\* req.body.selectedFiles: absent or empty, one indexed path, the same path
\* twice, three paths, a path that is not indexed, three entries none of
\* which matches a core pattern.
SelectedChoices ==
    { <<>>,
      << <<"src", "index.ts">> >>,
      << <<"src", "c.ts">>, <<"src", "c.ts">> >>,
      << <<"src", "c.ts">>, <<"package.json">>, <<"src", "index.ts">> >>,
      << <<"docs", "none.md">> >>,
      << <<"src", "c.ts">>, <<"src", "c.ts">>, <<"docs", "none.md">> >> }

\* req.body.message.
Questions == { <<"w", "h", "y">> }

\* chunk.choices[0]?.delta?.content || "": no content, or some text.
Deltas == { <<>>, <<"a">>, <<"b", "c">> }

\* The store returns rows in the order of insertion.
RowKey(row) == (row.gen * 10000) + (row.doc * 100) + row.chunk

RECURSIVE RowsInOrder(_)
RowsInOrder(S) ==
    IF S = {} THEN <<>>
    ELSE LET first == CHOOSE x \in S : \A y \in S : RowKey(x) <= RowKey(y)
         IN  <<first>> \o RowsInOrder(S \ {first})

Range(f) == {f[x] : x \in DOMAIN f}

\* rpc match_documents: at most match_count rows of the project, ranked; the
\* ranking depends on the question's vector and is any order here.
HitLists(p) ==
    {h \in UNION {[1 .. n -> DocsOf(p)] : n \in 0 .. MinOf(MaxHits, MATCH_COUNT)} :
        \A a, b \in DOMAIN h : a # b => h[a] # h[b]}

\* ---------------------------------------------------- generateFileTree
\* Object.keys(node).sort(): the segment names in code-unit order.
SegOrder == <<"c.ts", "constructor", "docs", "index.ts", "none.md", "package.json",
              "src">>

\* tree is an object literal: current[part] also finds the properties it
\* inherits from Object.prototype, "constructor" standing for them here.
InheritedKeys == {"constructor"}

\* if (!current[part]) current[part] = {}: a part that names an inherited
\* property is truthy, so no key is created for it and the rest of the path
\* goes into the inherited object; the tree holds the parts before it.
RECURSIVE OwnParts(_)
OwnParts(parts) ==
    IF parts = <<>> \/ Head(parts) \in InheritedKeys THEN <<>>
    ELSE <<Head(parts)>> \o OwnParts(Tail(parts))

\* Keys of the node reached by the segments pre in the tree built from paths.
KeysAt(paths, pre) ==
    {q[Len(pre) + 1] : q \in {x \in paths : /\ Len(x) > Len(pre)
                                              /\ SubSeq(x, 1, Len(pre)) = pre}}

\* buildString(node, prefix): one line per key (prefix, connector, key, the
\* line break being implied), followed by the lines of its children.  The
\* box-drawing connectors are written "L-- " (last key) and "|-- ".
RECURSIVE buildString(_, _, _)
buildString(paths, pre, prefix) ==
    LET keys == SelectSeq(SegOrder, LAMBDA k : k \in KeysAt(paths, pre))
        Line(index) ==
            LET key == keys[index]
                isLast == index = Len(keys)
                connector == IF isLast THEN "L-- " ELSE "|-- "
                childPrefix == IF isLast THEN "    " ELSE "|   "
                isFile == KeysAt(paths, Append(pre, key)) = {}
            IN  << Append(Append(prefix, connector), key) >>
                \o (IF isFile THEN <<>>
                    ELSE buildString(paths, Append(pre, key),
                                     Append(prefix, childPrefix)))
        RECURSIVE Lines(_)
        Lines(index) == IF index > Len(keys) THEN <<>>
                        ELSE Line(index) \o Lines(index + 1)
    IN  Lines(1)

generateFileTree(paths) ==
    buildString({OwnParts(path) : path \in Range(paths)}, <<>>, <<>>)

\* ------------------------------------------------------- sanitizeContent
\* The character U+0000.
NUL == "NUL"

\* Variant: replace without the g flag removes the first NUL only.
sanitizeContentFirstOnly(content) ==
    IF \E j \in DOMAIN content : content[j] = NUL
    THEN LET first == CHOOSE j \in DOMAIN content :
                         /\ content[j] = NUL
                         /\ \A m \in 1 .. (j - 1) : content[m] # NUL
         IN  SubSeq(content, 1, first - 1) \o SubSeq(content, first + 1, Len(content))
    ELSE content

\* content.replace(/\u0000/g, "").
sanitizeContent(content) == SelectSeq(content, LAMBDA ch : ch # NUL)

\* ------------------------------------------------- calls of the functions
\* Paths of files a repository may hold, one directory being named
\* "constructor".
TreePaths ==
    { <<"package.json">>, <<"src", "index.ts">>, <<"src", "c.ts">>,
      <<"constructor", "c.ts">>, <<"src", "constructor", "index.ts">> }

\* The lists handed to generateFileTree: any order, paths may repeat.
PathLists == UNION {[1 .. n -> TreePaths] : n \in 0 .. MaxPaths}

\* The contents fs.readFile yields.
RawTexts == UNION {[1 .. n -> {"a", "b", NUL}] : n \in 0 .. MaxText}

\* generateFileTree(paths).
CallGenerateFileTree ==
    /\ call.fn \in {"none", "generateFileTree"}
    /\ \E paths \in PathLists :
          call' = [fn |-> "generateFileTree", arg |-> paths,
                   out |-> generateFileTree(paths)]
    /\ UNCHANGED <<lifeVars, chat, messages, usage, gate>>

\* sanitizeContent(content).
CallSanitizeContent ==
    /\ call.fn = "none"
    /\ \E content \in RawTexts :
          call' = [fn |-> "sanitizeContent", arg |-> content,
                   out |-> sanitizeContent(content)]
    /\ UNCHANGED <<lifeVars, chat, messages, usage, gate>>

\* sanitizeContent applied to the result of the call before.
CallSanitizeAgain ==
    /\ call.fn = "sanitizeContent"
    /\ call' = [fn |-> "sanitizeContent", arg |-> call.out,
                out |-> sanitizeContent(call.out)]
    /\ UNCHANGED <<lifeVars, chat, messages, usage, gate>>

\* readFiles(dir) of a snapshot of one or two files: for each file the
\* content read, sanitized.
CallReadFiles ==
    /\ call.fn = "none"
    /\ \E n \in 1 .. 2 : \E files \in [1 .. n -> RawTexts] :
          call' = [fn |-> "readFiles", arg |-> files,
                   out |-> [f \in 1 .. n |-> sanitizeContent(files[f])]]
    /\ UNCHANGED <<lifeVars, chat, messages, usage, gate>>

\* ------------------------------------------------------ context resolution
\* [...new Set(targetPaths)]: first occurrences, in order.
RECURSIVE Unique(_)
Unique(s) ==
    IF s = <<>> THEN <<>>
    ELSE LET front == Unique(SubSeq(s, 1, Len(s) - 1))
             last == s[Len(s)]
         IN  IF last \in Range(front) THEN front ELSE Append(front, last)

\* slice(0, n).
Slice(s, n) == SubSeq(s, 1, MinOf(n, Len(s)))

\* Variant: the core paths are appended whatever the number of selected files.
TargetPathsAlwaysCore(selectedFiles, allPaths) ==
    LET corePaths == Slice(SelectSeq(allPaths, MatchesCore), 3)
    IN  Unique(selectedFiles \o corePaths)

\* Step B: the selected files, then (fewer than three selected) the first
\* three entries of allPaths that match a core pattern, deduplicated.
TargetPaths(selectedFiles, allPaths) ==
    LET corePaths == Slice(SelectSeq(allPaths, MatchesCore), 3)
    IN  Unique(IF Len(selectedFiles) < 3 THEN selectedFiles \o corePaths
                                             ELSE selectedFiles)

\* Variant: every doc is kept.
UniqueDocsKeepAll(allDocs) == allDocs

\* uniqueDocsMap.set(doc.metadata.path, doc) for each doc in turn: a path keeps
\* the place of its first doc and the doc set last.
RECURSIVE UniqueDocs(_)
UniqueDocs(allDocs) ==
    IF allDocs = <<>> THEN <<>>
    ELSE LET map == UniqueDocs(SubSeq(allDocs, 1, Len(allDocs) - 1))
             doc == allDocs[Len(allDocs)]
         IN  IF \E i \in DOMAIN map : PathOf(map[i].row) = PathOf(doc.row)
             THEN [i \in DOMAIN map |->
                      IF PathOf(map[i].row) = PathOf(doc.row) THEN doc ELSE map[i]]
             ELSE Append(map, doc)

\* A doc as the handler holds it: the row, and the query that returned it.
Doc(row, via) == [row |-> row, via |-> via]
DocsVia(rows, via) == [i \in DOMAIN rows |-> Doc(rows[i], via)]

RECURSIVE Concat(_)
Concat(texts) == IF texts = <<>> THEN <<>> ELSE Head(texts) \o Concat(Tail(texts))

\* --------------------------------------------------------- chatWithProject
\* Variant: the catch block always answers with status 500 and an error body.
ChatCatchAlways500(c, why) ==
    [c EXCEPT !.pc = "done", !.fail = why, !.status = 500, !.errBody = TRUE,
              !.headersSent = TRUE, !.ended = TRUE]

\* The catch block: before anything was sent the answer is status 500 with an
\* error body, otherwise the response is only ended.
ChatCatch(c, why) ==
    IF c.headersSent
    THEN [c EXCEPT !.pc = "done", !.fail = why, !.ended = TRUE]
    ELSE [c EXCEPT !.pc = "done", !.fail = why, !.status = 500, !.errBody = TRUE,
                   !.headersSent = TRUE, !.ended = TRUE]

\* A chat request has passed requireAuth and enters the handler.
ChatArrive(p, sel, q) ==
    /\ chat.pc = "new"
    /\ chat' = [NoChat EXCEPT !.pc = "usage", !.pid = p, !.sel = sel,
                              !.message = q, !.base = Len(messages)]
    /\ UNCHANGED <<messages, usage>>
    /\ UNCHANGED <<lifeVars, call, gate>>

\* 0. incrementUsage(userId, "chat").
ChatUsage ==
    /\ chat.pc = "usage"
    /\ usage' = usage + 1
    /\ chat' = [chat EXCEPT !.pc = "saveUser"]
    /\ UNCHANGED messages
    /\ UNCHANGED <<lifeVars, call, gate>>

\* Variant: the user's message is not inserted at this point.
ChatSaveUserSkipped ==
    /\ chat.pc = "saveUser"
    /\ chat' = [chat EXCEPT !.pc = "fileMap"]
    /\ UNCHANGED <<messages, usage>>
    /\ UNCHANGED <<lifeVars, call, gate>>

\* 1. insert the user's message.
ChatSaveUser ==
    /\ chat.pc = "saveUser"
    /\ messages' = Append(messages, [project_id |-> chat.pid, role |-> "user",
                                     content |-> chat.message, sources |-> <<>>])
    /\ chat' = [chat EXCEPT !.pc = "fileMap"]
    /\ UNCHANGED usage
    /\ UNCHANGED <<lifeVars, call, gate>>

\* Variant: the tree is rendered whatever the number of paths.
ChatFileMapNoMarker ==
    /\ chat.pc = "fileMap"
    /\ \E filePaths \in {"rows", "null"} :
          LET rows == RowsInOrder(DocsOf(chat.pid))
              allPaths == IF filePaths = "rows"
                          THEN [i \in DOMAIN rows |-> PathOf(rows[i])]
                          ELSE <<>>
              targetPaths == TargetPaths(chat.sel, allPaths)
          IN  chat' = [chat EXCEPT
                         !.fileStructure = generateFileTree(allPaths),
                         !.targetPaths = targetPaths,
                         !.pc = IF Len(targetPaths) > 0 THEN "explicit" ELSE "embed"]
    /\ UNCHANGED <<messages, usage>>
    /\ UNCHANGED <<lifeVars, call, gate>>

\* Steps A and B: the path of every row of the project (no data: no path),
\* the file tree or the marker, and the target paths.
ChatFileMap ==
    /\ chat.pc = "fileMap"
    /\ \E filePaths \in {"rows", "null"} :
          LET rows == RowsInOrder(DocsOf(chat.pid))
              allPaths == IF filePaths = "rows"
                          THEN [i \in DOMAIN rows |-> PathOf(rows[i])]
                          ELSE <<>>
              targetPaths == TargetPaths(chat.sel, allPaths)
          IN  chat' = [chat EXCEPT
                         !.fileStructure = IF Len(allPaths) > 0
                                           THEN generateFileTree(allPaths)
                                           ELSE << <<"(No files found)">> >>,
                         !.targetPaths = targetPaths,
                         !.pc = IF Len(targetPaths) > 0 THEN "explicit" ELSE "embed"]
    /\ UNCHANGED <<messages, usage>>
    /\ UNCHANGED <<lifeVars, call, gate>>

\* Step B, the fetch: every row of the project whose path is a target path
\* (data || []).
ChatExplicit ==
    /\ chat.pc = "explicit"
    /\ \E data \in {"rows", "null"} :
          LET rows == SelectSeq(RowsInOrder(DocsOf(chat.pid)),
                                LAMBDA row : PathOf(row) \in Range(chat.targetPaths))
          IN  chat' = [chat EXCEPT
                         !.explicitDocs = IF data = "rows"
                                          THEN DocsVia(rows, "explicit") ELSE <<>>,
                         !.pc = "embed"]
    /\ UNCHANGED <<messages, usage>>
    /\ UNCHANGED <<lifeVars, call, gate>>

\* Step C, first call: openai.embeddings.create; an error is thrown.
ChatEmbed ==
    /\ chat.pc = "embed"
    /\ \/ chat' = [chat EXCEPT !.pc = "match"]
       \/ chat' = ChatCatch([chat EXCEPT !.retrErr = "embed"], "embed")
    /\ UNCHANGED <<messages, usage>>
    /\ UNCHANGED <<lifeVars, call, gate>>

\* Step C, second call, and step D: rpc match_documents (vectorDocs || []),
\* the merge by path, the sources and the response headers.
ChatMatch ==
    /\ chat.pc = "match"
    /\ \E found \in {"rows", "null"} :
       \E hits \in (IF found = "rows" THEN HitLists(chat.pid) ELSE {<<>>}) :
          LET vectorDocs == DocsVia(hits, "vector")
              uniqueDocs == UniqueDocs(chat.explicitDocs \o vectorDocs)
              sources == [i \in DOMAIN uniqueDocs |-> PathOf(uniqueDocs[i].row)]
          IN  chat' = [chat EXCEPT
                         !.vectorDocs = vectorDocs,
                         !.retrErr = IF found = "null" THEN "match" ELSE @,
                         !.uniqueDocs = uniqueDocs,
                         !.sources = sources,
                         !.hdrSet = TRUE, !.xsources = sources,
                         !.pc = "generate"]
    /\ UNCHANGED <<messages, usage>>
    /\ UNCHANGED <<lifeVars, call, gate>>

\* Step E: openai.chat.completions.create; an error is thrown.
ChatGenerate ==
    /\ chat.pc = "generate"
    /\ \/ chat' = [chat EXCEPT !.pc = "stream"]
       \/ chat' = ChatCatch(chat, "generate")
    /\ UNCHANGED <<messages, usage>>
    /\ UNCHANGED <<lifeVars, call, gate>>

\* Variant: the text is collected and written when the stream has ended.
ChatStreamBuffered ==
    /\ chat.pc = "stream"
    /\ \/ /\ Len(chat.emitted) < MaxDeltas
          /\ \E text \in Deltas :
                chat' = [chat EXCEPT !.emitted = Append(@, text),
                                     !.fullAnswer = @ \o text]
       \/ chat' = [chat EXCEPT !.pc = "saveAssistant",
                               !.body = IF chat.fullAnswer # <<>>
                                        THEN <<chat.fullAnswer>> ELSE <<>>,
                               !.headersSent = chat.fullAnswer # <<>>]
       \/ chat' = ChatCatch(chat, "stream")
    /\ UNCHANGED <<messages, usage>>
    /\ UNCHANGED <<lifeVars, call, gate>>

\* One turn of the for-await loop: the next chunk (its text, when there is
\* some, is written and appended to fullAnswer), the end of the stream, or an
\* error of the provider.
ChatStream ==
    /\ chat.pc = "stream"
    /\ \/ /\ Len(chat.emitted) < MaxDeltas
          /\ \E text \in Deltas :
                chat' = IF text # <<>>
                        THEN [chat EXCEPT !.emitted = Append(@, text),
                                          !.body = Append(@, text),
                                          !.headersSent = TRUE,
                                          !.fullAnswer = @ \o text]
                        ELSE [chat EXCEPT !.emitted = Append(@, text)]
       \/ chat' = [chat EXCEPT !.pc = "saveAssistant"]
       \/ chat' = ChatCatch(chat, "stream")
    /\ UNCHANGED <<messages, usage>>
    /\ UNCHANGED <<lifeVars, call, gate>>

\* Insert the assistant message, then res.end().
ChatSaveAssistant ==
    /\ chat.pc = "saveAssistant"
    /\ messages' = Append(messages, [project_id |-> chat.pid, role |-> "assistant",
                                     content |-> chat.fullAnswer,
                                     sources |-> chat.sources])
    /\ chat' = [chat EXCEPT !.pc = "done", !.headersSent = TRUE, !.ended = TRUE]
    /\ UNCHANGED usage
    /\ UNCHANGED <<lifeVars, call, gate>>

\* ----------------------------------------------------------- specifications
HandlerStep(r) ==
    \/ CreateInsert(r) \/ CreateRespond(r) \/ CreateToken(r)
    \/ SyncVerify(r) \/ SyncWipe(r) \/ SyncSetStatus(r)
    \/ SyncRespond(r) \/ SyncToken(r)
    \/ DeleteWipe(r) \/ DeleteRow(r)
    \/ ReadVerify(r) \/ ReadGithub(r) \/ ReadFallback(r)

RunStep(k) ==
    \/ RunCloneClean(k) \/ RunClone(k) \/ RunRead(k) \/ RunBatch(k)
    \/ RunCleanup(k) \/ RunReady(k) \/ RunCatch(k)

\* Requests arrive at any time and overlap freely.
ArriveAny ==
    /\ nReq < MaxReq
    /\ \E r \in RIDS, kind \in Kinds, u \in Users, p \in PIDS : Arrive(r, kind, u, p)

\* Requests arrive one after the other: the next one only when every handler
\* and every run has finished.
ArriveSeq ==
    /\ nReq < MaxSeqReq
    /\ Idle
    /\ \E r \in RIDS, kind \in Kinds, u \in Users, p \in PIDS : Arrive(r, kind, u, p)

Next ==
    \/ ArriveAny
    \/ \E r \in RIDS : HandlerStep(r)
    \/ \E k \in RIDS : RunStep(k)

NextSeq ==
    \/ ArriveSeq
    \/ \E r \in RIDS : HandlerStep(r)
    \/ \E k \in RIDS : RunStep(k)

Spec == Init /\ [][Next]_vars

SeqSpec == InitSeq /\ [][NextSeq]_vars

\* The chat specification: the store holds project 1 with the rows of one of
\* ChatRepos and project 2 with no row, no project request and no run is
\* in flight, and the transcript is empty or holds an earlier exchange.
InitChat ==
    /\ projects = [p \in PIDS |-> IF p <= 2 THEN [status |-> "READY", user_id |-> "u1"]
                                            ELSE NoProject]
    /\ \E repo \in ChatRepos :
          /\ documents = BatchRows(1, 0, repo.chunks, 0)
          /\ origin = {repo.chunks}
          /\ repoPaths = repo.paths
    /\ call = NoCall
    /\ gate = GateIdle
    /\ nextPid = 3
    /\ tempDir = [p \in PIDS |-> NoDir]
    /\ reqs = [r \in RIDS |-> NoReq]
    /\ runs = [r \in RIDS |-> NoRun]
    /\ nReq = 0
    /\ nextGen = 1
    /\ chat = NoChat
    /\ usage = 0
    /\ messages \in
          { <<>>,
            << [project_id |-> 1, role |-> "user", content |-> <<"h", "i">>,
                sources |-> <<>>],
               [project_id |-> 1, role |-> "assistant", content |-> <<"a">>,
                sources |-> << <<"package.json">> >>] >> }

ChatArriveAny ==
    \E p \in PIDS, sel \in SelectedChoices, q \in Questions : ChatArrive(p, sel, q)

NextChat ==
    \/ ChatArriveAny
    \/ ChatUsage \/ ChatSaveUser \/ ChatFileMap \/ ChatExplicit
    \/ ChatEmbed \/ ChatMatch \/ ChatGenerate \/ ChatStream
    \/ ChatSaveAssistant

ChatSpec == InitChat /\ [][NextChat]_vars

\* Both families of requests over the same stores: project requests and their
\* runs overlap as in Spec as long as no chat request has arrived, and a chat
\* request arrives at a store no project request has been sent to.
ArriveIso == chat.pc = "new" /\ ArriveAny

ChatArriveIso == nReq = 0 /\ ChatArriveAny

NextIso ==
    \/ ArriveIso
    \/ \E r \in RIDS : HandlerStep(r)
    \/ \E k \in RIDS : RunStep(k)
    \/ ChatArriveIso
    \/ ChatUsage \/ ChatSaveUser \/ ChatFileMap \/ ChatExplicit
    \/ ChatEmbed \/ ChatMatch \/ ChatGenerate \/ ChatStream
    \/ ChatSaveAssistant

IsoSpec == Init /\ [][NextIso]_vars

\* ------------------------------------------- the chat route of one user
\* router.post("/", checkRateLimit("chat"), chatWithProject): a chat request
\* of the user has passed requireAuth and enters checkRateLimit, which issues
\* the query for the usage row.
RateArrive(r) ==
    /\ gate.arrived < MaxChats
    /\ gate.at[r].pc \in {"idle", "done"}
    /\ gate' = [gate EXCEPT !.at[r] = [pc |-> "fetch", resp |-> 0],
                            !.arrived = @ + 1]
    /\ UNCHANGED <<lifeVars, chat, messages, usage, call>>

\* checkRateLimit: the usage row is read (an error is answered with 500) and,
\* the window not being over, chat_count is compared with the limit: 429, or
\* next(), which runs chatWithProject up to its call of incrementUsage.
RateCheck(r) ==
    /\ gate.at[r].pc = "fetch"
    /\ \/ gate' = [gate EXCEPT !.at[r] = [pc |-> "done", resp |-> 500]]
       \/ /\ usage >= CHATS_PER_DAY
          /\ gate' = [gate EXCEPT !.at[r] = [pc |-> "done", resp |-> 429]]
       \/ /\ usage < CHATS_PER_DAY
          /\ gate' = [gate EXCEPT !.at[r].pc = "increment", !.reached = @ + 1]
    /\ UNCHANGED <<lifeVars, chat, messages, usage, call>>

\* incrementUsage(userId, "chat"): rpc increment_usage adds one to chat_count.
RateIncrement(r) ==
    /\ gate.at[r].pc = "increment"
    /\ usage' = usage + 1
    /\ gate' = [gate EXCEPT !.at[r].pc = "rest"]
    /\ UNCHANGED <<lifeVars, chat, messages, call>>

\* The rest of chatWithProject (its steps are those of ChatSpec): the request
\* ends with an answer or with the error response.
RateRest(r) ==
    /\ gate.at[r].pc = "rest"
    /\ \E code \in {200, 500} :
          gate' = [gate EXCEPT !.at[r] = [pc |-> "done", resp |-> code]]
    /\ UNCHANGED <<lifeVars, chat, messages, usage, call>>

\* The chat requests of one user within one usage window, overlapping.
NextRate ==
    \/ \E r \in RIDS : RateArrive(r)
    \/ \E r \in RIDS : RateCheck(r)
    \/ \E r \in RIDS : RateIncrement(r)
    \/ \E r \in RIDS : RateRest(r)

InitRate == Init /\ documents = {}

RateSpec == InitRate /\ [][NextRate]_vars

\* The function specification: no request is in flight, and a function of the
\* source is called on any input; generateFileTree is called again and again,
\* sanitizeContent again on its own result.
NextPure ==
    \/ CallGenerateFileTree
    \/ CallSanitizeContent
    \/ CallSanitizeAgain
    \/ CallReadFiles

InitPure == Init /\ documents = {}

PureSpec == InitPure /\ [][NextPure]_vars

TypeOK ==
    /\ \A p \in PIDS : projects[p].status \in {"NONE", "INDEXING", "READY", "ERROR"}
    /\ nReq \in 0 .. MaxOf(MaxReq, MaxSeqReq)
    /\ nextGen \in 1 .. (MaxOf(MaxReq, MaxSeqReq) + 1)
    /\ \A r \in RIDS : Len(reqs[r].resp) <= 2

\* ================================================================== claims
\* Number of batches the loop of indexDocuments makes over docs.
NumBatches(docs) == (Len(docs) + BATCH_SIZE - 1) \div BATCH_SIZE

\* The rows run k has inserted so far (defined while the run is executing).
InsertedRows(k) ==
    UNION {BatchRows(runs[k].pid, runs[k].gen, runs[k].docs, (b - 1) * BATCH_SIZE) :
              b \in runs[k].inserted}

\* The rows in the store that run k built.
RowsOfRun(k) == {row \in documents : row.gen = runs[k].gen}

\* The success response has been sent for the request in slot r.
Answered200(r) == reqs[r].resp # <<>> /\ reqs[r].resp[1] = 200

\* C1: at every moment, all documents rows of a project come from one single
\* ingestion run (generation), overlapping resyncs, runs and deletes included.
C1_OneGeneration ==
    \A p \in PIDS : \A a, b \in DocsOf(p) : a.gen = b.gen

\* C2: in every resync by the owner the delete of the project's rows has
\* completed (no row of the project left) before the status is set to
\* INDEXING, before the success response is sent and before the run started
\* by that resync exists, hence before its first insert.
C2_WipeBeforeRest ==
    \A r \in RIDS :
        reqs[r].kind = "sync" =>
            /\ (reqs[r].statusSet \/ Answered200(r) \/ runs[r].pc # "idle")
                   => reqs[r].wiped
            /\ (runs[r].pc # "idle" /\ runs[r].inserted # {})
                   => (reqs[r].wiped /\ reqs[r].statusSet /\ Answered200(r))

C2_Witness ==
    \E r \in RIDS :
        /\ reqs[r].kind = "sync" /\ reqs[r].wiped /\ reqs[r].statusSet
        /\ Answered200(r)
        /\ runs[r].inserted # {}
        /\ projects[reqs[r].pid].user_id = reqs[r].user

\* C3: resyncs that run one after the other (no overlap): right after the
\* delete step the project has no row, while the run executes the project
\* holds exactly the rows this run has inserted, and after the run has ended
\* every row of the project is a row of this run.
C3_SequentialResync ==
    \A r \in RIDS :
        reqs[r].kind = "sync" =>
            /\ reqs[r].pc = "setStatus" => DocsOf(reqs[r].pid) = {}
            /\ RunActive(r) => DocsOf(runs[r].pid) = InsertedRows(r)
            /\ runs[r].pc # "idle" =>
                   \A row \in DocsOf(runs[r].pid) : row.gen = runs[r].gen

\* Project 1 pre-existed, no project was created, and the second of two
\* resync runs of project 1 has completed with rows.
C3_Witness ==
    \E r \in RIDS :
        /\ reqs[r].kind = "sync" /\ reqs[r].pid = 1
        /\ nextPid = 2 /\ nReq = 2
        /\ runs[r].pc = "done" /\ runs[r].gen = 2
        /\ DocsOf(1) # {}
        /\ \A row \in DocsOf(1) : row.gen = 2

\* C4: the status of a project changes only by: create inserting the row with
\* INDEXING, resync setting INDEXING, a run's last step setting READY, a run's
\* catch block setting ERROR.  (deleteProject removes the row.)  No step of a
\* file-read request changes it.
C4_StatusWriters ==
    [][\A p \in PIDS :
          projects'[p].status # projects[p].status =>
              \/ /\ projects[p].status = "NONE" /\ projects'[p].status = "INDEXING"
                 /\ \E r \in RIDS : /\ reqs[r].kind = "create"
                                    /\ reqs[r].pc = "insert" /\ reqs'[r].pc = "respond"
                                    /\ reqs'[r].pid = p
              \/ /\ projects[p].status # "NONE" /\ projects'[p].status = "INDEXING"
                 /\ \E r \in RIDS : /\ reqs[r].kind = "sync" /\ reqs[r].pid = p
                                    /\ reqs[r].pc = "setStatus" /\ reqs'[r].pc = "respond"
              \/ /\ projects'[p].status = "READY"
                 /\ \E k \in RIDS : /\ runs[k].pid = p
                                    /\ runs[k].pc = "ready" /\ runs'[k].pc = "done"
              \/ /\ projects'[p].status = "ERROR"
                 /\ \E k \in RIDS : /\ runs[k].pid = p
                                    /\ runs[k].pc = "catch" /\ runs'[k].pc = "failed"
              \/ /\ projects'[p].status = "NONE"
                 /\ \E r \in RIDS : /\ reqs[r].kind = "delete" /\ reqs[r].pid = p
                                    /\ reqs[r].pc = "row" /\ reqs'[r].pc = "done"]_vars

\* A file read has been answered from the index while a run had set ERROR.
C4_Witness ==
    \E r, k \in RIDS :
        /\ reqs[r].kind = "read" /\ reqs[r].resp = <<200>>
        /\ runs[k].wrote = "ERROR" /\ runs[k].pid = reqs[r].pid
        /\ projects[runs[k].pid].status = "ERROR"

\* C5: a project is never in INDEXING with no ingestion run active for it
\* (and no create/resync handler still about to start one).
C5_IndexingHasRun ==
    \A p \in PIDS :
        projects[p].status = "INDEXING" =>
            \/ \E k \in RIDS : RunActive(k) /\ runs[k].pid = p
            \/ \E r \in RIDS : /\ ReqActive(r) /\ reqs[r].pid = p
                               /\ reqs[r].kind \in {"create", "sync"}

\* C6: on create the row is inserted with status INDEXING, then the response
\* is sent, and only then the run is started; the response does not change
\* once the run exists, whatever the run's outcome.
C6_CreateOrder ==
    /\ [](\A r \in RIDS :
            reqs[r].kind = "create" =>
                /\ Answered200(r) => reqs[r].pid # 0
                /\ runs[r].pc # "idle" => (reqs[r].resp = <<200>> /\ reqs[r].pc = "done"))
    /\ [][\A r \in RIDS :
            /\ (reqs[r].kind = "create" /\ reqs[r].pc = "insert" /\ reqs'[r].pc = "respond")
                   => (/\ projects[reqs'[r].pid].status = "NONE"
                       /\ projects'[reqs'[r].pid].status = "INDEXING"
                       /\ reqs'[r].resp = <<>> /\ runs'[r].pc = "idle")
            /\ (reqs[r].kind = "create" /\ runs[r].pc # "idle" /\ runs'[r].pc # "idle")
                   => reqs'[r].resp = reqs[r].resp]_vars

\* A create was answered with success and its run failed afterwards.
C6_Witness ==
    \E r \in RIDS :
        /\ reqs[r].kind = "create" /\ reqs[r].resp = <<200>>
        /\ runs[r].pc = "failed" /\ runs[r].pid = reqs[r].pid

\* C7: a failing step of a run leads to the catch block without touching the
\* rows; the catch block sets the status to ERROR and deletes no row, so the
\* rows of the run's earlier batches stay.
C7_FailureKeepsRows ==
    [][\A k \in RIDS :
          /\ (runs[k].pc \in {"clone", "read", "batch", "cleanup"} /\ runs'[k].pc = "catch")
                 => (/\ documents' = documents
                     /\ runs'[k].inserted = runs[k].inserted
                     /\ runs'[k].fail # "none")
          /\ (runs[k].pc = "catch" /\ runs'[k].pc # "catch")
                 => (/\ runs'[k].pc = "failed"
                     /\ documents' = documents
                     /\ projects[runs[k].pid].status # "NONE"
                            => projects'[runs[k].pid].status = "ERROR")]_vars

\* A run failed after its first batch: status ERROR, and the store holds
\* exactly the first batch's rows of that run.
C7_Witness ==
    \E k \in RIDS :
        /\ runs[k].pc = "failed" /\ runs[k].wrote = "ERROR"
        /\ projects[runs[k].pid].status = "ERROR"
        /\ RowsOfRun(k) = BatchRows(runs[k].pid, runs[k].gen, BigSnapshot, 0)
        /\ DocsOf(runs[k].pid) = RowsOfRun(k)

C9_InsertErrorContinues ==
    /\ [](\A k \in RIDS :
            /\ (runs[k].insErr # {} /\ runs[k].fail \notin {"embed", "cleanup"})
                   => runs[k].pc \in {"batch", "cleanup", "ready"}
            /\ (runs[k].pc \in {"cleanup", "ready"})
                   => /\ runs[k].inserted \cap runs[k].insErr = {}
                      /\ \A b \in 1 .. NumBatches(runs[k].docs) :
                            BatchRows(runs[k].pid, runs[k].gen, runs[k].docs,
                                      (b - 1) * BATCH_SIZE) # {}
                                => b \in runs[k].inserted \cup runs[k].insErr
                      /\ InsertedRows(k) \subseteq documents)
    /\ [][\A k \in RIDS :
            (runs[k].pc = "ready" /\ runs'[k].pc # "ready")
                => (/\ runs'[k].pc = "done" /\ runs'[k].wrote = "READY"
                    /\ projects[runs[k].pid].status # "NONE"
                           => projects'[runs[k].pid].status = "READY")]_vars

\* The insert of batch 1 failed, batches 2 and 3 were inserted, READY is next.
C9_Witness ==
    \E k \in RIDS :
        /\ runs[k].insErr = {1} /\ runs[k].inserted = {2, 3}
        /\ runs[k].pc = "ready"
        /\ InsertedRows(k) \subseteq documents

\* C10: once a run has ended, the snapshot directory it cloned is gone.
C10_NoSnapshotLeft ==
    \A k \in RIDS :
        runs[k].pc \in {"done", "failed"} =>
            ~(tempDir[runs[k].pid].exists /\ tempDir[runs[k].pid].by = runs[k].gen)

\* Every row indexDocuments builds from docs for run k.
AllRows(k) ==
    UNION {BatchRows(runs[k].pid, runs[k].gen, runs[k].docs, (b - 1) * BATCH_SIZE) :
              b \in 1 .. NumBatches(runs[k].docs)}

\* C11: a resync by the owner passes the verification whatever the status of
\* the project row (READY, ERROR, INDEXING); the run it starts begins at the
\* clone, after the wipe and the status update; and when that run reaches its
\* last step without an insert error the project holds exactly the rows of
\* that run and the step writes READY (the project having been in ERROR
\* included).
C11_ResyncFromAnyStatus ==
    /\ [](\A r \in RIDS :
            (reqs[r].kind = "sync" /\ runs[r].pc = "ready" /\ runs[r].insErr = {})
                => /\ reqs[r].seen \in {"READY", "ERROR", "INDEXING"}
                   /\ DocsOf(runs[r].pid) = AllRows(r)
                   /\ \A row \in DocsOf(runs[r].pid) : row.gen = runs[r].gen)
    /\ [][\A r \in RIDS :
            /\ (/\ reqs[r].kind = "sync" /\ reqs[r].pc = "verify"
                /\ reqs'[r].pc # "verify"
                /\ projects[reqs[r].pid].status \in {"READY", "ERROR", "INDEXING"}
                /\ projects[reqs[r].pid].user_id = reqs[r].user)
                   => (/\ reqs'[r].pc = "wipe" /\ reqs'[r].resp = <<>>
                       /\ reqs'[r].seen = projects[reqs[r].pid].status)
            /\ (reqs[r].kind = "sync" /\ runs[r].pc = "idle" /\ runs'[r].pc # "idle")
                   => (/\ runs'[r].pc \in {"clone", "cloneClean"}
                       /\ runs'[r].pid = reqs[r].pid
                       /\ reqs[r].wiped /\ reqs[r].statusSet)
            /\ (reqs[r].kind = "sync" /\ runs[r].pc = "ready" /\ runs'[r].pc # "ready")
                   => (/\ runs'[r].pc = "done"
                       /\ projects'[runs[r].pid].status = "READY")]_vars

\* A resync of a project found in ERROR is about to write READY, the project
\* holding the rows of the three batches of this run and no other row.
C11_Witness ==
    \E r \in RIDS :
        /\ reqs[r].kind = "sync" /\ reqs[r].seen = "ERROR"
        /\ runs[r].pc = "ready" /\ runs[r].insErr = {}
        /\ runs[r].docs = BigSnapshot
        /\ DocsOf(runs[r].pid) = AllRows(r)
        /\ projects[runs[r].pid].status = "INDEXING"

\* C12: a resync by a user who does not own the project, or for a project
\* that does not exist, is answered 404 at the verification and nothing else
\* happens: no row is deleted, no status is written, no run is started.
C12_ForeignResyncNoEffect ==
    /\ [](\A r \in RIDS :
            reqs[r].kind = "sync" =>
                /\ (reqs[r].resp # <<>> /\ reqs[r].resp[1] = 404)
                       => (/\ reqs[r].resp = <<404>> /\ reqs[r].pc = "done"
                           /\ reqs[r].seen = "-"
                           /\ ~reqs[r].wiped /\ ~reqs[r].statusSet
                           /\ runs[r].pc = "idle")
                /\ reqs[r].pc \in {"wipe", "setStatus", "respond", "token"}
                       => reqs[r].seen # "-")
    /\ [][\A r \in RIDS :
            (/\ reqs[r].kind = "sync" /\ reqs[r].pc = "verify"
             /\ reqs'[r].pc # "verify"
             /\ ~(/\ projects[reqs[r].pid].status # "NONE"
                  /\ projects[reqs[r].pid].user_id = reqs[r].user))
                => (/\ reqs'[r].resp = <<404>> /\ reqs'[r].pc = "done"
                    /\ documents' = documents /\ projects' = projects
                    /\ runs' = runs /\ tempDir' = tempDir)]_vars

\* A resync of another user's READY project, which has rows, was answered 404.
C12_Witness ==
    \E r \in RIDS :
        /\ reqs[r].kind = "sync" /\ reqs[r].resp = <<404>>
        /\ projects[reqs[r].pid].status = "READY"
        /\ projects[reqs[r].pid].user_id # reqs[r].user
        /\ DocsOf(reqs[r].pid) # {}

\* The row chatWithProject inserts for the user's message.
UserMessage ==
    [project_id |-> chat.pid, role |-> "user", content |-> chat.message,
     sources |-> <<>>]

\* The rows the chat request has appended to the transcript.
Appended == SubSeq(messages, chat.base + 1, Len(messages))

\* The generation call has been started (it may have failed).
GenerationStarted ==
    \/ chat.pc \in {"stream", "saveAssistant"}
    \/ chat.pc = "done" /\ chat.fail \in {"none", "generate", "stream"}

\* C13: the user's message is in the transcript before the generation call
\* is started -- from the end of the insert step on, whatever the file map,
\* the explicit fetch, the embedding, the search and the generation do -- and
\* the transcript only grows, so the message stays recorded after a failure.
C13_UserMessageFirst ==
    /\ [](chat.pc \notin {"new", "usage", "saveUser"}
             => (Appended # <<>> /\ Appended[1] = UserMessage))
    /\ [][/\ Len(messages') >= Len(messages)
          /\ SubSeq(messages', 1, Len(messages)) = messages]_vars

\* The provider failed in the middle of the stream; the question is the one
\* row this request has added after the two rows of the earlier exchange.
C13_Witness ==
    /\ chat.pc = "done" /\ chat.fail = "stream" /\ chat.body # <<>>
    /\ chat.base = 2
    /\ Appended = <<UserMessage>>

\* C14: when the provider fails after at least one delta was written, the
\* request has appended, after the user's message, exactly one assistant
\* message whose content is the concatenation of the written deltas and whose
\* sources are the resolved sources.
C14_PartialAnswerPersisted ==
    (chat.pc = "done" /\ chat.fail = "stream" /\ chat.body # <<>>)
        => (/\ Len(Appended) = 2
            /\ Appended[2] = [project_id |-> chat.pid, role |-> "assistant",
                              content |-> Concat(chat.body),
                              sources |-> chat.sources])

\* C15: at every moment of the stream what has been written is exactly the
\* non-empty deltas the provider has emitted so far, in order (nothing is held
\* back, no empty delta is written), and fullAnswer is their concatenation;
\* the x-sources header was set to the resolved sources before the first
\* write; and when the stream has ended normally the request has appended one
\* assistant message holding that concatenation and those sources.
C15_StreamForwardedAndSaved ==
    /\ chat.body = SelectSeq(chat.emitted, LAMBDA text : text # <<>>)
    /\ chat.fullAnswer = Concat(chat.body)
    /\ chat.body # <<>> => (chat.hdrSet /\ chat.xsources = chat.sources
                            /\ chat.status = 0 /\ ~chat.errBody)
    /\ (chat.pc = "done" /\ chat.fail = "none")
           => (/\ chat.ended
               /\ Len(Appended) = 2
               /\ Appended[2] = [project_id |-> chat.pid, role |-> "assistant",
                                 content |-> Concat(chat.body),
                                 sources |-> chat.xsources])

\* The stream ended normally after an empty delta between two texts, with
\* two sources attached.
C15_Witness ==
    /\ chat.pc = "done" /\ chat.fail = "none"
    /\ chat.emitted = << <<"a">>, <<>>, <<"b", "c">> >>
    /\ chat.body = << <<"a">>, <<"b", "c">> >>
    /\ Len(chat.xsources) = 2
    /\ messages[Len(messages)].content = <<"a", "b", "c">>

\* C16: a failure with nothing written yet is answered with status 500 and
\* an error body and nothing else; a failure after a delta was written only
\* ends the response: status, headers and what was written stay as they were
\* and no error body is sent.
C16_ErrorResponse ==
    /\ [](chat.fail # "none"
             => /\ chat.pc = "done" /\ chat.ended
                /\ IF chat.body = <<>>
                   THEN chat.status = 500 /\ chat.errBody
                   ELSE chat.status = 0 /\ ~chat.errBody)
    /\ [][(chat.fail = "none" /\ chat'.fail # "none")
             => (/\ chat'.body = chat.body
                 /\ chat'.hdrSet = chat.hdrSet /\ chat'.xsources = chat.xsources
                 /\ chat.body # <<>> => chat'.status = chat.status
                 /\ messages' = messages)]_vars

\* The provider failed after two deltas had been written.
C16_Witness ==
    /\ chat.fail = "stream" /\ Len(chat.body) = 2
    /\ chat.ended /\ chat.status = 0 /\ ~chat.errBody

\* C17: once the embedding of the question or the similarity search has
\* failed, the request goes on with no similarity hit: it is on its way to the
\* generation call or has made it, and the failure is not answered by an error.
C17_RetrievalFailureIsZeroHits ==
    chat.retrErr # "none"
        => /\ chat.vectorDocs = <<>>
           /\ chat.pc = "generate" \/ GenerationStarted

\* C18: for a project without rows the file structure is the marker (and
\* for no project the empty text), the context and the sources are empty, the
\* handler goes from the file map to the generation call when no provider
\* call fails, and an error response comes from a failed provider call only.
C18_EmptyProjectAnswers ==
    /\ [](/\ chat.pc \notin {"new", "usage", "saveUser", "fileMap"}
             => (/\ chat.fileStructure # <<>>
                 /\ DocsOf(chat.pid) = {}
                        => chat.fileStructure = << <<"(No files found)">> >>)
          /\ DocsOf(chat.pid) = {}
                => /\ chat.uniqueDocs = <<>> /\ chat.sources = <<>>
                   /\ chat.xsources = <<>>
                   /\ chat.status = 500 => chat.fail \in {"embed", "generate", "stream"})
    /\ [][DocsOf(chat.pid) = {}
             => /\ (chat.pc = "fileMap" /\ chat'.pc # "fileMap")
                       => chat'.pc \in {"explicit", "embed"}
                /\ (chat.pc = "explicit" /\ chat'.pc # "explicit")
                       => chat'.pc = "embed"
                /\ (chat.pc = "match" /\ chat'.pc # "match")
                       => chat'.pc = "generate"
                /\ (chat'.fail # "none")
                       => chat.pc \in {"embed", "generate", "stream"}]_vars

\* A request that selected a file, against project 2 (no row), has streamed
\* an answer and saved it with no source.
C18_Witness ==
    /\ chat.pid = 2 /\ DocsOf(2) = {} /\ chat.sel # <<>>
    /\ chat.pc = "done" /\ chat.fail = "none" /\ Len(chat.body) = 3
    /\ chat.status = 0
    /\ messages[Len(messages)].role = "assistant"
    /\ messages[Len(messages)].sources = <<>>

\* C19: the resolved context holds each path once, and it holds every path
\* of the explicit fetch and of the similarity hits; the sources are the
\* paths of the context, in its order.
C19_EachPathOnce ==
    (chat.pc = "generate" \/ GenerationStarted)
        => /\ \A i, j \in DOMAIN chat.uniqueDocs :
                  i # j => PathOf(chat.uniqueDocs[i].row) # PathOf(chat.uniqueDocs[j].row)
           /\ {PathOf(d.row) : d \in Range(chat.uniqueDocs)}
                  = {PathOf(d.row) : d \in Range(chat.explicitDocs \o chat.vectorDocs)}
           /\ chat.sources = [i \in DOMAIN chat.uniqueDocs |->
                                 PathOf(chat.uniqueDocs[i].row)]
           /\ \A i, j \in DOMAIN chat.sources : i # j => chat.sources[i] # chat.sources[j]

\* src/index.ts was fetched with its two chunks and is also a similarity
\* hit, next to src/c.ts; the sources name package.json and these two paths
\* once each.
C19_Witness ==
    /\ chat.pc = "generate"
    /\ Len(SelectSeq(chat.explicitDocs,
                     LAMBDA d : PathOf(d.row) = <<"src", "index.ts">>)) = 2
    /\ {PathOf(d.row) : d \in Range(chat.vectorDocs)}
           = { <<"src", "index.ts">>, <<"src", "c.ts">> }
    /\ chat.sel = << <<"src", "index.ts">> >>
    /\ Len(chat.sources) = 3

\* C20: a path that the explicit fetch returned is represented in the
\* resolved context by a doc of the explicit fetch, also when the similarity
\* search returned the path too.
C20_ExplicitRowKept ==
    (chat.pc = "generate" \/ GenerationStarted)
        => \A i \in DOMAIN chat.uniqueDocs :
              (\E e \in Range(chat.explicitDocs) :
                  PathOf(e.row) = PathOf(chat.uniqueDocs[i].row))
                  => chat.uniqueDocs[i].via = "explicit"

\* The context of the chat request has been resolved.
Resolved == chat.pc = "generate" \/ GenerationStarted

\* The file map and the explicit fetch of the chat request returned rows.
StoreAnswered ==
    /\ chat.fileStructure # << <<"(No files found)">> >>
    /\ chat.targetPaths # <<>> => chat.explicitDocs # <<>>

\* C21: the indexed repository holds exactly package.json and src/index.ts
\* (any number of chunks each); a chat request for it without selected files,
\* whose store queries returned rows, has package.json among its target paths
\* (the core-file heuristic) and so in its resolved context, whatever the
\* similarity search returned.
C21_CoreHeuristicFindsManifest ==
    (/\ Range(repoPaths) = { <<"package.json">>, <<"src", "index.ts">> }
     /\ chat.pid = 1 /\ chat.sel = <<>>
     /\ Resolved /\ StoreAnswered)
        => /\ <<"package.json">> \in Range(chat.targetPaths)
           /\ <<"package.json">> \in Range(chat.sources)

\* Reading a rendered tree: a line is its indentation, its connector and its
\* key; the line above it that is one level less deep is its parent.
KeyOfLine(line) == line[Len(line)]
ConnectorOfLine(line) == line[Len(line) - 1]
DepthOfLine(line) == Len(line) - 1

RECURSIVE PathOfLine(_, _)
PathOfLine(out, i) ==
    IF DepthOfLine(out[i]) = 1 THEN <<KeyOfLine(out[i])>>
    ELSE LET above == {j \in 1 .. (i - 1) :
                          DepthOfLine(out[j]) = DepthOfLine(out[i]) - 1}
             parent == CHOOSE j \in above : \A m \in above : m <= j
         IN  Append(PathOfLine(out, parent), KeyOfLine(out[i]))

\* The distinct non-empty prefixes of a set of paths.
Prefixes(S) == UNION {{SubSeq(path, 1, n) : n \in 1 .. Len(path)} : path \in S}

\* Place of a segment in the lexicographic order.
SegIndex(key) == CHOOSE i \in DOMAIN SegOrder : SegOrder[i] = key

\* out is the tree of the set of paths: one line per distinct prefix,
\* siblings ascending, the last sibling (and only it) with the connector
\* of a last key.
TreeShape(paths, out) ==
    LET at(i) == PathOfLine(out, i)
        Sibling(i, j) == /\ Len(at(i)) = Len(at(j))
                         /\ SubSeq(at(i), 1, Len(at(i)) - 1)
                               = SubSeq(at(j), 1, Len(at(j)) - 1)
    IN  /\ \A pre \in Prefixes(Range(paths)) :
               Cardinality({i \in DOMAIN out : at(i) = pre}) = 1
        /\ \A i \in DOMAIN out : at(i) \in Prefixes(Range(paths))
        /\ \A i, j \in DOMAIN out :
               (i < j /\ Sibling(i, j))
                  => SegIndex(KeyOfLine(out[i])) < SegIndex(KeyOfLine(out[j]))
        /\ \A i \in DOMAIN out :
               ConnectorOfLine(out[i]) =
                  IF \E j \in DOMAIN out : j > i /\ Sibling(i, j) THEN "|-- "
                                                                  ELSE "L-- "

\* C22: the tree generateFileTree renders depends only on the set of paths:
\* two calls with lists of the same set (any order, any repetition) return
\* the same string, siblings are in ascending lexicographic order, every
\* distinct path prefix is on exactly one line, and at every level exactly
\* the last sibling has the connector of a last key.
C22_TreeOfPathSet ==
    /\ [](call.fn = "generateFileTree" => TreeShape(call.arg, call.out))
    /\ [][(/\ call.fn = "generateFileTree" /\ call'.fn = "generateFileTree"
           /\ Range(call'.arg) = Range(call.arg)) => call'.out = call.out]_vars

\* One row per chunk of the documents first .. last of run k, with the run's
\* project id; the path of a row is the path of its document.
ChunkRows(k, first, last) ==
    UNION {{[project_id |-> runs[k].pid, gen |-> runs[k].gen, doc |-> d, chunk |-> c] :
               c \in 1 .. runs[k].docs[d]} :
              d \in first .. MinOf(last, Len(runs[k].docs))}

\* C24: a run takes its documents in order, in consecutive batches of at most
\* BATCH_SIZE documents, each document in exactly one batch: an iteration
\* handles the documents i+1 .. i+BATCH_SIZE after every batch before them was
\* handled, inserts rows of these documents only and none that is already
\* stored, and the next iteration starts at i+BATCH_SIZE.  After a loop
\* without failure the run's rows are one row per chunk of every document,
\* with the run's project id.
C24_BatchesInOrder ==
    /\ [](\A k \in RIDS :
            runs[k].pc \in {"batch", "cleanup", "ready"} =>
                /\ runs[k].i % BATCH_SIZE = 0
                /\ runs[k].pc = "batch" => runs[k].i < Len(runs[k].docs)
                /\ runs[k].pc # "batch" => runs[k].i >= Len(runs[k].docs)
                /\ \A b \in runs[k].inserted \cup runs[k].insErr :
                       b * BATCH_SIZE <= runs[k].i
                /\ \A b \in 1 .. (runs[k].i \div BATCH_SIZE) :
                       ChunkRows(k, (b - 1) * BATCH_SIZE + 1, b * BATCH_SIZE) # {}
                           => b \in runs[k].inserted \cup runs[k].insErr
                /\ (runs[k].pc # "batch" /\ runs[k].insErr = {})
                       => RowsOfRun(k) = ChunkRows(k, 1, Len(runs[k].docs)))
    /\ [][\A k \in RIDS :
            (runs[k].pc = "batch" /\ runs'[k] # runs[k]) =>
                LET i == runs[k].i
                    batch == ChunkRows(k, i + 1, i + BATCH_SIZE)
                    new == documents' \ documents
                IN  /\ documents \subseteq documents'
                    /\ new \in {{}, batch}
                    /\ runs'[k].inserted # runs[k].inserted
                           => (new = batch /\ batch \cap documents = {})
                    /\ runs'[k].pc # "catch" => runs'[k].i = i + BATCH_SIZE
                    /\ runs'[k].pc = "catch" => new = {}]_vars

\* A run over 25 documents has handled its three batches without failure.
C24_Witness ==
    \E k \in RIDS :
        /\ runs[k].docs = BigSnapshot /\ runs[k].pc = "cleanup"
        /\ runs[k].inserted = {1, 2, 3} /\ runs[k].insErr = {}
        /\ RowsOfRun(k) = ChunkRows(k, 1, 25)
        /\ Cardinality(RowsOfRun(k)) = 25

\* C25: a run writes READY only after every batch has been handled and the
\* snapshot has been deleted, in that order: the status becomes READY only by
\* the step of a run that is past its cleanup, the cleanup that leads there
\* starts after the loop has ended and leaves no snapshot, and at the write no
\* batch of the run is pending and no snapshot cloned by the run exists.
C25_ReadyAfterBatchesAndCleanup ==
    /\ [](\A k \in RIDS :
            runs[k].pc = "ready" =>
                /\ runs[k].i >= Len(runs[k].docs)
                /\ \A b \in 1 .. NumBatches(runs[k].docs) :
                       ChunkRows(k, (b - 1) * BATCH_SIZE + 1, b * BATCH_SIZE) # {}
                           => b \in runs[k].inserted \cup runs[k].insErr
                /\ ~(tempDir[runs[k].pid].exists
                       /\ tempDir[runs[k].pid].by = runs[k].gen))
    /\ [][\A k \in RIDS :
            (runs'[k].pc = "ready" /\ runs[k].pc # "ready") =>
                /\ runs[k].pc = "cleanup"
                /\ runs[k].i >= Len(runs[k].docs)
                /\ tempDir'[runs[k].pid] = NoDir]_vars
    /\ [][\A p \in PIDS :
            (projects'[p].status = "READY" /\ projects[p].status # "READY") =>
                \E k \in RIDS : /\ runs[k].pid = p /\ runs[k].pc = "ready"
                                /\ runs'[k].pc = "done"
                                /\ runs'[k].wrote = "READY"]_vars

\* A run over three batches has written READY; its 25 rows are stored and
\* the snapshot is gone.
C25_Witness ==
    \E k \in RIDS :
        /\ runs[k].pc = "done" /\ runs[k].wrote = "READY"
        /\ projects[runs[k].pid].status = "READY"
        /\ Cardinality(RowsOfRun(k)) = 25
        /\ ~tempDir[runs[k].pid].exists

\* C26: a run whose clone failed is in its catch block having read no file,
\* handled no batch (no embedding call, no insert) and stored no row; its
\* next and last step stores nothing and writes ERROR to the project's row.
C26_CloneFailureAborts ==
    /\ [](\A k \in RIDS :
            runs[k].fail = "clone" =>
                /\ runs[k].pc = "catch"
                /\ runs[k].docs = <<>> /\ runs[k].i = 0
                /\ runs[k].inserted = {} /\ runs[k].insErr = {}
                /\ runs[k].failBatch = 0
                /\ RowsOfRun(k) = {})
    /\ [][\A k \in RIDS :
            (runs[k].fail = "clone" /\ runs'[k] # runs[k]) =>
                /\ runs'[k].pc = "failed" /\ runs'[k].wrote = "ERROR"
                /\ documents' = documents
                /\ projects[runs[k].pid].status # "NONE"
                       => projects'[runs[k].pid].status = "ERROR"]_vars

\* The clone of a run has failed while the project's row says INDEXING.
C26_Witness ==
    \E k \in RIDS :
        /\ runs[k].fail = "clone" /\ runs[k].pc = "catch"
        /\ projects[runs[k].pid].status = "INDEXING"

\* The file map step of the chat request has run.
FileMapDone == chat.fileStructure # <<>>

\* Paths of the rows stored for the project of the chat request.
IndexedPaths == {PathOf(row) : row \in DocsOf(chat.pid)}

\* Place of the first entry of list s that equals x.
FirstIndex(s, x) == CHOOSE i \in DOMAIN s : s[i] = x /\ \A j \in 1 .. (i - 1) : s[j] # x

\* C27: the target paths of a chat request hold no path twice and start with
\* the selected paths (in the order given); with three or more selected
\* entries nothing follows them, with fewer at most three paths follow, each
\* the path of a stored row of the project that matches a core pattern.
C27_TargetPaths ==
    FileMapDone =>
        LET sel == chat.sel
            tp == chat.targetPaths
            n == Cardinality(Range(sel))
        IN  /\ \A i, j \in DOMAIN tp : i # j => tp[i] # tp[j]
            /\ Len(tp) >= n
            /\ {tp[i] : i \in 1 .. n} = Range(sel)
            /\ \A i, j \in 1 .. n :
                   i < j => FirstIndex(sel, tp[i]) < FirstIndex(sel, tp[j])
            /\ Len(sel) >= 3 => Len(tp) = n
            /\ Len(sel) < 3 =>
                   /\ Len(tp) - n <= 3
                   /\ \A i \in (n + 1) .. Len(tp) :
                          tp[i] \in IndexedPaths /\ MatchesCore(tp[i])

\* One path was selected twice: it comes first, once, followed by the two
\* core paths of the project.
C27_Witness ==
    /\ FileMapDone
    /\ chat.sel = << <<"src", "c.ts">>, <<"src", "c.ts">> >>
    /\ chat.targetPaths = << <<"src", "c.ts">>, <<"package.json">>, <<"src", "index.ts">> >>

\* The rows stored for a path of the project of the chat request, and the
\* rows the resolved context presents for it.
StoredRows(path) == {row \in DocsOf(chat.pid) : PathOf(row) = path}
PresentedRows(path) ==
    {chat.uniqueDocs[i].row : i \in {j \in DOMAIN chat.uniqueDocs :
                                        PathOf(chat.uniqueDocs[j].row) = path}}

\* C28: in the resolved context of a chat request whose store queries
\* returned rows, every target path that has stored rows is presented with
\* all the chunks stored for it.
C28_FullContentOfTargets ==
    (Resolved /\ StoreAnswered) =>
        \A i \in DOMAIN chat.targetPaths :
            StoredRows(chat.targetPaths[i]) # {}
                => PresentedRows(chat.targetPaths[i]) = StoredRows(chat.targetPaths[i])

\* out is text with its NUL characters left out: the other characters, each
\* once, in their order.
NulsRemoved(text, out) ==
    LET keep == {j \in DOMAIN text : text[j] # NUL}
        ith(i) == CHOOSE j \in keep : Cardinality({m \in keep : m <= j}) = i
    IN  /\ Len(out) = Cardinality(keep)
        /\ \A i \in DOMAIN out : out[i] = text[ith(i)]

\* C29: sanitizeContent returns its argument without the NUL characters, all
\* other characters kept in their order; applied to its own result it returns
\* that result; and every text readFiles returns is the file's content
\* without NUL characters.
C29_NulStripped ==
    /\ [](call.fn = "sanitizeContent" =>
            /\ \A i \in DOMAIN call.out : call.out[i] # NUL
            /\ NulsRemoved(call.arg, call.out))
    /\ [](call.fn = "readFiles" =>
            /\ DOMAIN call.out = DOMAIN call.arg
            /\ \A f \in DOMAIN call.out :
                   /\ \A i \in DOMAIN call.out[f] : call.out[f][i] # NUL
                   /\ NulsRemoved(call.arg[f], call.out[f]))
    /\ [][(call.fn = "sanitizeContent" /\ call'.fn = "sanitizeContent")
             => (call'.arg = call.out /\ call'.out = call.out)]_vars

\* sanitizeContent was called on a text with two NUL characters in a row.
C29_Witness ==
    /\ call.fn = "sanitizeContent"
    /\ call.arg = <<"a", NUL, NUL, "b">>
    /\ call.out = <<"a", "b">>

\* The step is taken by a project handler or a run that works on project p.
ActsOn(p) ==
    \E r \in RIDS :
        \/ reqs'[r] # reqs[r] /\ reqs'[r].pid = p
        \/ runs'[r] # runs[r] /\ runs[r].pid = p

\* The rows the chat request holds.
RowsRead ==
    {d.row : d \in Range(chat.explicitDocs) \cup Range(chat.vectorDocs)
                      \cup Range(chat.uniqueDocs)}

\* C30: operations are scoped by project: a step changes the documents rows,
\* the project row or the snapshot directory of a project only if it is a
\* step of a handler or a run for that project; a chat request holds rows of
\* its own project only, renders the file map of its own project, changes no
\* documents or project row, and only appends messages of its own project.
C30_ProjectIsolation ==
    /\ [][\A p \in PIDS :
            (\/ {row \in documents' : row.project_id = p} # DocsOf(p)
             \/ projects'[p] # projects[p]
             \/ tempDir'[p] # tempDir[p]) => ActsOn(p)]_vars
    /\ [](/\ \A row \in RowsRead : row.project_id = chat.pid
          /\ FileMapDone =>
                chat.fileStructure \in
                   { << <<"(No files found)">> >>,
                     generateFileTree(
                        [i \in DOMAIN RowsInOrder(DocsOf(chat.pid)) |->
                            PathOf(RowsInOrder(DocsOf(chat.pid))[i])]) })
    /\ [][chat' # chat =>
            /\ documents' = documents /\ projects' = projects /\ tempDir' = tempDir
            /\ Len(messages') >= Len(messages)
            /\ SubSeq(messages', 1, Len(messages)) = messages
            /\ \A i \in (Len(messages) + 1) .. Len(messages') :
                   messages'[i].project_id = chat'.pid]_vars

\* A run inserts rows for project 2 while rows of project 1 are stored.
C30_Witness ==
    \E k \in RIDS :
        /\ runs[k].pid = 2 /\ runs[k].inserted # {}
        /\ DocsOf(2) # {} /\ DocsOf(1) # {}

\* C31: overlapping runs of a project do not disturb each other: a run that
\* has cloned and is about to read finds the snapshot it cloned itself (no
\* other run's start-of-clone cleanup or end-of-run deletion has removed or
\* replaced it), and a step of one run removes no snapshot that another
\* run cloned and has not yet finished with.
C31_OwnSnapshotOnly ==
    /\ [](\A k \in RIDS :
            runs[k].pc = "read" =>
                /\ tempDir[runs[k].pid].exists
                /\ tempDir[runs[k].pid].by = runs[k].gen)
    /\ [][\A k, o \in RIDS :
            (/\ k # o /\ runs'[k] # runs[k] /\ RunActive(o)
             /\ runs[o].pid = runs[k].pid
             /\ tempDir[runs[o].pid].exists
             /\ tempDir[runs[o].pid].by = runs[o].gen)
                => tempDir'[runs[o].pid] = tempDir[runs[o].pid]]_vars

\* C32: no step of a delete request sent by a user who does not own the
\* project changes the project's row or any documents row.
C32_ForeignDeleteNoEffect ==
    [][\A r \in RIDS :
          (/\ reqs[r].kind = "delete" /\ reqs'[r] # reqs[r]
           /\ reqs[r].pc \in {"wipe", "row"}
           /\ projects[reqs[r].pid].status # "NONE"
           /\ projects[reqs[r].pid].user_id # reqs[r].user)
              => (documents' = documents /\ projects' = projects)]_vars

\* The store has handed out id p and the project's row is gone: the row is
\* removed only by the step of the owner's delete request that also sends
\* the success response.
DeletedByOwner(p) == p < nextPid /\ projects[p].status = "NONE"

\* C33: once the owner's delete of a project has completed, the store holds
\* no documents row of that project, then and at any later time, also when a
\* run of the project was in progress during the delete.
C33_NoRowsAfterDelete ==
    \A p \in PIDS : DeletedByOwner(p) => DocsOf(p) = {}

\* C35: the chat counter (0 before the request) counts successes only: when
\* the chat request has ended it is 1 if the request succeeded and 0 if it
\* failed, before or during the generation.
C35_UsageCountsSuccess ==
    chat.pc = "done" => usage = (IF chat.fail = "none" THEN 1 ELSE 0)

\* C34: within one usage window the user's chat_count does not exceed the
\* daily limit, and no more requests than the limit enter chatWithProject,
\* however the user's chat requests overlap.
C34_DailyChatLimit ==
    /\ usage <= CHATS_PER_DAY
    /\ gate.reached <= CHATS_PER_DAY

\* C36: a create or resync request sends exactly one response: its handler
\* never holds more than one, has sent one when it ends, and once a response
\* has been sent no later step of the handler (the token query, the start of
\* the run) and no step of the run adds another.
C36_ExactlyOneResponse ==
    /\ [](\A r \in RIDS :
            reqs[r].kind \in {"create", "sync"} =>
                /\ Len(reqs[r].resp) <= 1
                /\ reqs[r].pc = "done" => Len(reqs[r].resp) = 1)
    /\ [][\A r \in RIDS :
            (/\ reqs[r].kind \in {"create", "sync"} /\ reqs[r].resp # <<>>
             /\ (ReqActive(r) \/ RunActive(r)))
                => reqs'[r].resp = reqs[r].resp]_vars

\* A create request was answered with success, then its token query found no
\* token: the handler has ended, no run was started, one response was sent.
C36_Witness ==
    \E r \in RIDS :
        /\ reqs[r].kind = "create" /\ reqs[r].pc = "done"
        /\ reqs[r].resp = <<200>>
        /\ runs[r].pc = "idle"

====
